---- MODULE Spec2Model ----
(***************************************************************************)
(* EUR weather: the rate cache, the averaging and classification engine    *)
(* and the refresh cycle (initApp) of the page script.                     *)
(*                                                                         *)
(* A refresh cycle is one run of initApp in one page.  Several pages of    *)
(* the same origin (tabs, reloads) share one localStorage, so cycles may   *)
(* overlap in time; each page has its own document.                        *)
(*                                                                         *)
(* JavaScript numbers are binary floating point: every arithmetic result   *)
(* is rounded to the nearest representable value, ties to even.  The model *)
(* keeps that rounding with a significand of Precision bits (53 in the     *)
(* engine) and an unbounded exponent; the sign of zero is not kept.        *)
(* Timestamps are whole milliseconds far below 2^53, on which the          *)
(* engine's arithmetic is exact: they are plain integers here.             *)
(***************************************************************************)
EXTENDS Integers, Sequences, FiniteSets, TLC

(***************************************************************************)
(* Bounds of the model.                                                    *)
(***************************************************************************)
\* bits of significand kept by the number model
Precision == 8
\* page loads (runs of initApp) in one behaviour
MaxLoads == 2
\* clock advances in one behaviour
MaxTicks == 1
\* longest rate series handed to calculateAverage directly
MaxSeries == 3
\* most days in a historical response handed to fetchHistoricalRates directly
MaxDays == 3

(***************************************************************************)
(* JavaScript numbers.  A number is a pair <<n, d>>: the dyadic rational   *)
(* n/d in lowest terms (d a power of two) when d > 0, and NaN, +Infinity,  *)
(* -Infinity when d = 0.                                                   *)
(***************************************************************************)
NaN == <<0, 0>>
PosInfinity == <<1, 0>>
NegInfinity == <<-1, 0>>
Zero == <<0, 1>>

IsNaN(a) == a[2] = 0 /\ a[1] = 0
IsFinite(a) == a[2] > 0

Abs(i) == IF i < 0 THEN -i ELSE i
Sign(i) == IF i < 0 THEN -1 ELSE IF i > 0 THEN 1 ELSE 0

RECURSIVE Pow2(_)
Pow2(k) == IF k = 0 THEN 1 ELSE 2 * Pow2(k - 1)

\* the dyadic n/d in lowest terms
RECURSIVE Normalize(_, _)
Normalize(n, d) ==
    IF n = 0 THEN Zero
    ELSE IF d > 1 /\ n % 2 = 0 THEN Normalize(n \div 2, d \div 2)
    ELSE <<n, d>>

\* the integer significands of a normal number are SigLow .. SigHigh - 1
SigLow == Pow2(Precision - 1)
SigHigh == Pow2(Precision)

\* a/den scaled by up/down into [SigLow, SigHigh), then rounded to an
\* integer significand, ties to even
RECURSIVE RoundScaled(_, _, _, _, _)
RoundScaled(s, a, den, up, down) ==
    IF a * up < SigLow * den * down
    THEN RoundScaled(s, a, den, 2 * up, down)
    ELSE IF a * up >= SigHigh * den * down
    THEN RoundScaled(s, a, den, up, 2 * down)
    ELSE LET m == (a * up) \div (den * down)
             rem == a * up - m * den * down
             mr == IF 2 * rem > den * down \/ (2 * rem = den * down /\ m % 2 = 1)
                   THEN m + 1 ELSE m
         IN  Normalize(s * mr * down, up)

\* the number nearest to the rational num/den (den > 0); an integer below
\* SigHigh is a number as it stands
RoundRat(num, den) ==
    IF den = 1 /\ -SigHigh < num /\ num < SigHigh THEN <<num, 1>>
    ELSE IF num = 0 THEN Zero
    ELSE RoundScaled(Sign(num), Abs(num), den, 1, 1)

\* a numeric literal or an integer value
Num(i) == RoundRat(i, 1)

NumNeg(a) == <<-a[1], a[2]>>

\* a + b
NumAdd(a, b) ==
    IF IsFinite(a) /\ IsFinite(b)
    THEN RoundRat(a[1] * b[2] + b[1] * a[2], a[2] * b[2])
    ELSE IF IsNaN(a) \/ IsNaN(b) THEN NaN
    ELSE IF ~IsFinite(a) /\ ~IsFinite(b) THEN (IF a = b THEN a ELSE NaN)
    ELSE IF ~IsFinite(a) THEN a
    ELSE b

\* a - b
NumSub(a, b) == NumAdd(a, NumNeg(b))

\* a / b
NumDiv(a, b) ==
    IF IsFinite(a) /\ IsFinite(b) /\ b[1] # 0
    THEN RoundRat(Sign(b[1]) * a[1] * b[2], Abs(b[1]) * a[2])
    ELSE IF IsNaN(a) \/ IsNaN(b) THEN NaN
    ELSE IF ~IsFinite(a) /\ ~IsFinite(b) THEN NaN
    ELSE IF ~IsFinite(a) THEN (IF b[1] < 0 THEN NumNeg(a) ELSE a)
    ELSE IF ~IsFinite(b) THEN Zero
    ELSE IF a[1] = 0 THEN NaN
    ELSE IF a[1] > 0 THEN PosInfinity
    ELSE NegInfinity

\* a * b
NumMul(a, b) ==
    IF IsFinite(a) /\ IsFinite(b) THEN RoundRat(a[1] * b[1], a[2] * b[2])
    ELSE IF IsNaN(a) \/ IsNaN(b) THEN NaN
    ELSE IF a[1] = 0 \/ b[1] = 0 THEN NaN
    ELSE IF Sign(a[1]) = Sign(b[1]) THEN PosInfinity
    ELSE NegInfinity

\* a < b (false when either is NaN)
NumLT(a, b) ==
    IF IsFinite(a) /\ IsFinite(b) THEN a[1] * b[2] < b[1] * a[2]
    ELSE IF IsNaN(a) \/ IsNaN(b) THEN FALSE
    ELSE IF ~IsFinite(a) /\ ~IsFinite(b) THEN a[1] < b[1]
    ELSE IF ~IsFinite(a) THEN a[1] < 0
    ELSE b[1] > 0

\* a >= b, a <= b (false when either is NaN)
NumGE(a, b) == ~IsNaN(a) /\ ~IsNaN(b) /\ ~NumLT(a, b)
NumLE(a, b) == ~IsNaN(a) /\ ~IsNaN(b) /\ ~NumLT(b, a)

RECURSIVE Pow10(_)
Pow10(k) == IF k = 0 THEN 1 ELSE 10 * Pow10(k - 1)

\* x.toFixed(digits): the text of a number is kept as its kind ("digits",
\* "NaN" or "Infinity"), its minus sign and, for digits, the integer n that
\* the text shows with the point before its last digits places; n / 10^digits
\* is nearest to |x|, the larger n when two are as near
NoText == [kind |-> "none", neg |-> FALSE, n |-> 0]
toFixed(x, digits) ==
    IF IsNaN(x) THEN [kind |-> "NaN", neg |-> FALSE, n |-> 0]
    ELSE IF ~IsFinite(x) THEN [kind |-> "Infinity", neg |-> x[1] < 0, n |-> 0]
    ELSE [kind |-> "digits", neg |-> x[1] < 0,
          n |-> (2 * Abs(x[1]) * Pow10(digits) + x[2]) \div (2 * x[2])]

(***************************************************************************)
(* JavaScript values that travel through the cache: a number, an array of  *)
(* numbers (a rate series), null and undefined.                            *)
(***************************************************************************)
JSNum(x) == [t |-> "number", v |-> x]
JSArr(s) == [t |-> "array", v |-> s]
JSNull == [t |-> "null", v |-> <<>>]
JSUndefined == [t |-> "undefined", v |-> <<>>]

\* the number an operand of -, / or + (beside a number) stands for
ToNumber(x) == IF x.t = "number" THEN x.v ELSE NaN

\* Weather determination thresholds
THRESHOLD_SUNNY == RoundRat(1, 100)
THRESHOLD_RAINY == RoundRat(-1, 100)

\* Cache duration in milliseconds (10 minutes)
CACHE_DURATION == 10 * 60 * 1000

\* determineWeather with exclusive thresholds
determineWeatherExclusive(currentRate, avgRate) ==
    LET difference == NumDiv(NumSub(currentRate, avgRate), avgRate)
    IN  IF NumLT(THRESHOLD_SUNNY, difference) THEN "sunny"
        ELSE IF NumLT(difference, THRESHOLD_RAINY) THEN "rainy"
        ELSE "cloudy"

\* Determine weather based on rate comparison
determineWeather(currentRate, avgRate) ==
    LET difference == NumDiv(NumSub(currentRate, avgRate), avgRate)
    IN  IF NumGE(difference, THRESHOLD_SUNNY) THEN "sunny"
        ELSE IF NumLE(difference, THRESHOLD_RAINY) THEN "rainy"
        ELSE "cloudy"

\* rates.reduce((acc, val) => acc + val, acc0)
RECURSIVE Reduce(_, _)
Reduce(acc, rates) ==
    IF rates = <<>> THEN acc
    ELSE Reduce(NumAdd(acc, Head(rates)), Tail(rates))

\* calculateAverage without its guard for the empty series
calculateAverageUnguarded(rates) ==
    NumDiv(Reduce(Zero, rates), Num(Len(rates)))

\* Calculate average of rates
calculateAverage(rates) ==
    IF Len(rates) = 0 THEN Zero
    ELSE LET sum == Reduce(Zero, rates)
         IN  NumDiv(sum, Num(Len(rates)))

(***************************************************************************)
(* The rate provider's answers.  A response is                             *)
(*   kind "exception": the transport rejects (fetch throws);               *)
(*   kind "status":    response.ok is false;                               *)
(*   kind "parse":     response.json() rejects;                            *)
(*   kind "shape":     the payload has no usable rates mapping;            *)
(*   kind "ok":        the payload has a rates mapping.                    *)
(* A historical payload's mapping is the sequence of its days in response  *)
(* order, each day one of                                                  *)
(*   "rate":    an object holding a number for the quote currency;         *)
(*   "noobj":   not an object (null, a string);                            *)
(*   "missing": an object without the quote currency;                      *)
(*   "nonnum":  an object holding a non-number for the quote currency.     *)
(* A latest payload's mapping holds the number for the quote currency      *)
(* (kind "ok") or does not hold the quote currency (kind "missing").       *)
(***************************************************************************)
Day(k, r) == [kind |-> k, rate |-> r]
HistResponse(k, ds) == [kind |-> k, days |-> ds]
CurResponse(k, r) == [kind |-> k, rate |-> r]

Returned(x) == [threw |-> FALSE, value |-> x]
Thrown == [threw |-> TRUE, value |-> JSUndefined]

\* the loop over data.rates: the days that hold a number, in order
RECURSIVE ExtractRates(_, _)
ExtractRates(rates, days) ==
    IF days = <<>> THEN rates
    ELSE LET dayRates == Head(days)
         IN  IF dayRates.kind = "noobj" THEN ExtractRates(rates, Tail(days))
             ELSE IF dayRates.kind # "rate" THEN ExtractRates(rates, Tail(days))
             ELSE ExtractRates(Append(rates, dayRates.rate), Tail(days))

\* the try block of fetchHistoricalRates
HistoricalTry(response) ==
    IF response.kind = "exception" THEN Thrown
    ELSE IF response.kind = "status" THEN Thrown
    ELSE IF response.kind = "parse" THEN Thrown
    ELSE IF response.kind = "shape" THEN Returned(JSArr(<<>>))
    ELSE Returned(JSArr(ExtractRates(<<>>, response.days)))

\* fetchHistoricalRates without its catch block
fetchHistoricalRatesUncaught(response) == HistoricalTry(response)

\* Fetch historical rates for past 30 days
fetchHistoricalRates(response) ==
    LET r == HistoricalTry(response)
    IN  IF r.threw THEN Returned(JSArr(<<>>)) ELSE r

\* the try block of fetchCurrentRate; a payload without a rates mapping
\* makes data.rates[targetCurrency] throw a TypeError, a mapping without
\* the quote currency makes it undefined
CurrentTry(response) ==
    IF response.kind = "exception" THEN Thrown
    ELSE IF response.kind = "status" THEN Thrown
    ELSE IF response.kind = "parse" THEN Thrown
    ELSE IF response.kind = "shape" THEN Thrown
    ELSE IF response.kind = "missing" THEN Returned(JSUndefined)
    ELSE Returned(JSNum(response.rate))

\* Fetch current rate
fetchCurrentRate(response) ==
    LET r == CurrentTry(response)
    IN  IF r.threw THEN Thrown ELSE r


(***************************************************************************)
(* The expiring cache over localStorage.  A stored item is                 *)
(*   kind "none":    no item under the key (getItem returns null);         *)
(*   kind "garbled": a text JSON.parse rejects;                            *)
(*   kind "foreign": JSON text of an object that has no timestamp;         *)
(*   kind "entry":   the JSON text of {data, timestamp}.                   *)
(* The storage medium is in one of three modes: "ok"; "full", where        *)
(* setItem throws (quota exceeded) and reads work; "denied", where every   *)
(* access to localStorage throws.                                          *)
(***************************************************************************)
Keys == {"jpy-current", "jpy-historical", "usd-current", "usd-historical"}
CurrentKeys == {"jpy-current", "usd-current"}
Prefixes == {"jpy", "usd"}
CurrentKey(prefix) == IF prefix = "jpy" THEN "jpy-current" ELSE "usd-current"
HistoricalKey(prefix) == IF prefix = "jpy" THEN "jpy-historical" ELSE "usd-historical"

NoItem == [kind |-> "none", data |-> JSNull, timestamp |-> 0]
Garbled == [kind |-> "garbled", data |-> JSNull, timestamp |-> 0]
Foreign == [kind |-> "foreign", data |-> JSUndefined, timestamp |-> 0]
Entry(data, timestamp) == [kind |-> "entry", data |-> data, timestamp |-> timestamp]

\* what JSON.parse(JSON.stringify({data, timestamp})).data is: a number
\* that is not finite is written as null, an undefined data is left out
JSONData(data) ==
    IF data.t = "number" /\ ~IsFinite(data.v) THEN JSNull ELSE data

\* the try block of getCachedData with the validity test turned round
GetTryInverted(mode, store, key, t) ==
    LET cached == store[key]
    IN  IF mode = "denied" THEN [threw |-> TRUE, value |-> JSNull, store |-> store]
        ELSE IF cached.kind = "none"
             THEN [threw |-> FALSE, value |-> JSNull, store |-> store]
        ELSE IF cached.kind = "garbled"
             THEN [threw |-> TRUE, value |-> JSNull, store |-> store]
        ELSE IF cached.kind = "entry" /\ t - cached.timestamp > CACHE_DURATION
             THEN [threw |-> FALSE, value |-> cached.data, store |-> store]
        ELSE [threw |-> FALSE, value |-> JSNull,
              store |-> [store EXCEPT ![key] = NoItem]]

\* the try block of getCachedData with an entry still valid at the age of
\* CACHE_DURATION
GetTryInclusive(mode, store, key, t) ==
    LET cached == store[key]
    IN  IF mode = "denied" THEN [threw |-> TRUE, value |-> JSNull, store |-> store]
        ELSE IF cached.kind = "none"
             THEN [threw |-> FALSE, value |-> JSNull, store |-> store]
        ELSE IF cached.kind = "garbled"
             THEN [threw |-> TRUE, value |-> JSNull, store |-> store]
        ELSE IF cached.kind = "entry" /\ t - cached.timestamp <= CACHE_DURATION
             THEN [threw |-> FALSE, value |-> cached.data, store |-> store]
        ELSE [threw |-> FALSE, value |-> JSNull,
              store |-> [store EXCEPT ![key] = NoItem]]

\* the try block of getCachedData that empties the storage when the entry
\* has expired
GetTryClearsAll(mode, store, key, t) ==
    LET cached == store[key]
    IN  IF mode = "denied" THEN [threw |-> TRUE, value |-> JSNull, store |-> store]
        ELSE IF cached.kind = "none"
             THEN [threw |-> FALSE, value |-> JSNull, store |-> store]
        ELSE IF cached.kind = "garbled"
             THEN [threw |-> TRUE, value |-> JSNull, store |-> store]
        ELSE IF cached.kind = "entry" /\ t - cached.timestamp < CACHE_DURATION
             THEN [threw |-> FALSE, value |-> cached.data, store |-> store]
        ELSE [threw |-> FALSE, value |-> JSNull,
              store |-> [k \in DOMAIN store |-> NoItem]]

\* the try block of getCachedData(key) at time t
GetTry(mode, store, key, t) ==
    LET cached == store[key]
    IN  IF mode = "denied" THEN [threw |-> TRUE, value |-> JSNull, store |-> store]
        ELSE IF cached.kind = "none"
             THEN [threw |-> FALSE, value |-> JSNull, store |-> store]
        ELSE IF cached.kind = "garbled"
             THEN [threw |-> TRUE, value |-> JSNull, store |-> store]
        ELSE IF cached.kind = "entry" /\ t - cached.timestamp < CACHE_DURATION
             THEN [threw |-> FALSE, value |-> cached.data, store |-> store]
        ELSE [threw |-> FALSE, value |-> JSNull,
              store |-> [store EXCEPT ![key] = NoItem]]

\* getCachedData(key) at time t: the value returned and the storage left
getCachedData(mode, store, key, t) ==
    LET r == GetTry(mode, store, key, t)
    IN  IF r.threw THEN [threw |-> FALSE, value |-> JSNull, store |-> store] ELSE r

\* the try block of setCachedData(key, data) at time t
SetTry(mode, store, key, data, t) ==
    IF mode # "ok" THEN [threw |-> TRUE, store |-> store]
    ELSE [threw |-> FALSE, store |-> [store EXCEPT ![key] = Entry(JSONData(data), t)]]

\* setCachedData without its catch block
setCachedDataUncaught(mode, store, key, data, t) == SetTry(mode, store, key, data, t)

\* setCachedData(key, data) at time t: the storage left
setCachedData(mode, store, key, data, t) ==
    LET r == SetTry(mode, store, key, data, t)
    IN  IF r.threw THEN [threw |-> FALSE, store |-> store] ELSE r

(***************************************************************************)
(* The rates the provider answers with, in the model.                      *)
(***************************************************************************)
CurrentResponses == {CurResponse("status", Zero), CurResponse("ok", Num(101))}
HistoricalResponses ==
    { HistResponse("exception", <<>>),
      HistResponse("ok", <<Day("rate", Num(100)), Day("missing", Zero)>>) }

\* the same and the unusual answers: a latest payload without the quote
\* currency, a historical payload whose rates are zero
AnyCurrentResponses == CurrentResponses \cup {CurResponse("missing", Zero)}
AnyHistoricalResponses ==
    HistoricalResponses \cup {HistResponse("ok", <<Day("rate", Zero)>>)}

\* by how much the clock advances between two events
TickSteps == {CACHE_DURATION - 1, CACHE_DURATION}

\* the documents of the origin that are open: two tabs
Pages == {"a", "b"}

VARIABLES
    now,            \* Date.now()
    ticks,          \* clock advances so far
    loads,          \* page loads so far
    storageMode,    \* "ok", "full" or "denied"
    localStorage,   \* key -> stored item
    task,           \* page -> key -> the fetchWithCache call of the page's cycle
    locals,         \* page -> prefix -> initApp's rate, average and weather
    dom,            \* page -> the document's elements
    call,           \* the latest direct call of a pure function
    cacheCall       \* the latest direct call of a cache helper

vars == <<now, ticks, loads, storageMode, localStorage, task, locals, dom,
          call, cacheCall>>

(***************************************************************************)
(* A fetchWithCache call is                                                *)
(*   st "none":     not made;                                              *)
(*   st "cached":   returned the cached value;                             *)
(*   st "pending":  missed the cache, awaiting fetchFunction();            *)
(*   st "fetched":  fetchFunction() returned, the value was handed to      *)
(*                  setCachedData and returned;                            *)
(*   st "rejected": it threw; error tells whether fetchFunction() threw    *)
(*                  ("fetch") or a cache helper did ("cache").             *)
(* at is the time of the call; found, age and held tell what was stored    *)
(* under the key before the call, how old it was and the data it held;     *)
(* fetches counts the invocations of fetchFunction by the call.            *)
(***************************************************************************)
NoTask ==
    [st |-> "none", value |-> JSUndefined, at |-> 0, error |-> "",
     found |-> "", age |-> 0, held |-> JSUndefined, fetches |-> 0]
Resolved(t) == t.st \in {"cached", "fetched"}

NoLocals == [rate |-> JSUndefined, avg |-> NaN, weather |-> ""]
\* the text of a difference element: none yet, 'N/A', or sign, percentage, '%'
NoDiff == [kind |-> "none", sign |-> "", pct |-> NoText]
SentinelDiff == [kind |-> "N/A", sign |-> "", pct |-> NoText]
\* the elements of a pair as the document has them before any cycle wrote
\* them; written tells that updateCurrencyDisplay wrote them all
NoFields ==
    [written |-> FALSE, icon |-> "", rate |-> NoText, diff |-> NoDiff, cls |-> "",
     comment |-> ""]
InitialDom ==
    [loading |-> TRUE, content |-> FALSE, error |-> FALSE,
     fields |-> [p \in Prefixes |-> NoFields], updateTime |-> -1]

\* WEATHER[weatherType].icon
WeatherIcon(weatherType) ==
    CASE weatherType = "sunny" -> "sun"
      [] weatherType = "cloudy" -> "sun behind cloud"
      [] weatherType = "rainy" -> "cloud with rain"

\* updateCurrencyDisplay that takes the difference from the displayed
\* (for JPY inverted) rate
updateCurrencyDisplayInverted(prefix, rate, avgRate, weatherType) ==
    LET displayRate ==
            IF prefix = "jpy" /\ rate # JSNum(Zero)
            THEN JSNum(NumDiv(Num(1), ToNumber(rate))) ELSE rate
        difference == NumSub(ToNumber(displayRate), avgRate)
        percentDiff == toFixed(NumMul(NumDiv(difference, avgRate), Num(100)), 2)
        sign == IF NumGE(difference, Zero) THEN "+" ELSE ""
    IN  IF displayRate.t # "number"
        THEN [threw |-> TRUE,
              fields |-> [NoFields EXCEPT !.icon = WeatherIcon(weatherType)]]
        ELSE [threw |-> FALSE,
              fields |->
                 [written |-> TRUE,
                  icon |-> WeatherIcon(weatherType),
                  rate |-> toFixed(displayRate.v, IF prefix = "jpy" THEN 2 ELSE 4),
                  diff |-> IF avgRate = Zero THEN SentinelDiff
                           ELSE [kind |-> "percent", sign |-> sign, pct |-> percentDiff],
                  cls |-> IF avgRate = Zero THEN ""
                          ELSE IF NumLT(Zero, difference) THEN "positive"
                          ELSE IF NumLT(difference, Zero) THEN "negative"
                          ELSE "",
                  comment |-> weatherType]]

\* Update UI for a currency pair: whether it threw (toFixed of a rate that
\* is not a number is a TypeError) and the elements as it leaves them.  The
\* rate is the value fetchWithCache returned; the comment is kept as the
\* weather type whose comments it is drawn from.
updateCurrencyDisplay(prefix, rate, avgRate, weatherType) ==
    LET displayRate ==
            IF prefix = "jpy" /\ rate # JSNum(Zero)
            THEN JSNum(NumDiv(Num(1), ToNumber(rate))) ELSE rate
        difference == NumSub(ToNumber(rate), avgRate)
        percentDiff == toFixed(NumMul(NumDiv(difference, avgRate), Num(100)), 2)
        sign == IF NumGE(difference, Zero) THEN "+" ELSE ""
    IN  IF displayRate.t # "number"
        THEN [threw |-> TRUE,
              fields |-> [NoFields EXCEPT !.icon = WeatherIcon(weatherType)]]
        ELSE [threw |-> FALSE,
              fields |->
                 [written |-> TRUE,
                  icon |-> WeatherIcon(weatherType),
                  rate |-> toFixed(displayRate.v, IF prefix = "jpy" THEN 2 ELSE 4),
                  diff |-> IF avgRate = Zero THEN SentinelDiff
                           ELSE [kind |-> "percent", sign |-> sign, pct |-> percentDiff],
                  cls |-> IF avgRate = Zero THEN ""
                          ELSE IF NumLT(Zero, difference) THEN "positive"
                          ELSE IF NumLT(difference, Zero) THEN "negative"
                          ELSE "",
                  comment |-> weatherType]]

\* initApp's locals of one pair without the fallback for an empty series
ComputeNoFallback(tasks, prefix) ==
    LET rate == tasks[CurrentKey(prefix)].value
        avg == calculateAverage(tasks[HistoricalKey(prefix)].value.v)
    IN  [rate |-> rate, avg |-> avg,
         weather |-> determineWeather(ToNumber(rate), avg)]

\* initApp after Promise.all resolved: the locals of one pair
Compute(tasks, prefix) ==
    LET rate == tasks[CurrentKey(prefix)].value
        historical == tasks[HistoricalKey(prefix)].value
        historicalForAvg ==
            IF historical.t = "array" /\ Len(historical.v) > 0
            THEN historical.v ELSE <<ToNumber(rate)>>
        avg == calculateAverage(historicalForAvg)
    IN  [rate |-> rate, avg |-> avg,
         weather |-> determineWeather(ToNumber(rate), avg)]

\* fetchWithCache that does not look at the cache
StartTaskUncached(mode, store, cacheKey, t) ==
    [task |-> [st |-> "pending", value |-> JSUndefined, at |-> t, error |-> "",
               found |-> store[cacheKey].kind,
               age |-> t - store[cacheKey].timestamp,
               held |-> store[cacheKey].data,
               fetches |-> 1],
     store |-> store]

\* fetchWithCache(cacheKey, ...) at time t, up to its await; found, age and
\* held tell what was stored under the key before the call
StartTask(mode, store, cacheKey, t) ==
    LET got == getCachedData(mode, store, cacheKey, t)
        seen == [found |-> store[cacheKey].kind, age |-> t - store[cacheKey].timestamp,
                 held |-> store[cacheKey].data]
    IN  [task |-> IF got.threw
                  THEN [st |-> "rejected", value |-> JSUndefined, at |-> t,
                        error |-> "cache", fetches |-> 0] @@ seen
                  ELSE IF got.value.t # "null"
                  THEN [st |-> "cached", value |-> got.value, at |-> t,
                        error |-> "", fetches |-> 0] @@ seen
                  ELSE [st |-> "pending", value |-> JSUndefined, at |-> t,
                        error |-> "", fetches |-> 1] @@ seen,
         store |-> got.store]

\* fetchWithCache that invokes a throwing fetchFunction a second time
FinishTaskRetry(mode, store, cacheKey, old, r, t) ==
    LET set == setCachedData(mode, store, cacheKey, r.value, t)
    IN  IF r.threw /\ old.fetches < 2
        THEN [task |-> [old EXCEPT !.fetches = @ + 1], store |-> store]
        ELSE IF r.threw
        THEN [task |-> [old EXCEPT !.st = "rejected", !.error = "fetch"],
              store |-> store]
        ELSE IF set.threw
        THEN [task |-> [old EXCEPT !.st = "rejected", !.error = "cache"],
              store |-> set.store]
        ELSE [task |-> [old EXCEPT !.st = "fetched", !.value = r.value],
              store |-> set.store]

\* fetchWithCache that caches in a finally block, a failed fetch included
FinishTaskCachesFailure(mode, store, cacheKey, old, r, t) ==
    LET set == setCachedData(mode, store, cacheKey, r.value, t)
    IN  IF r.threw
        THEN [task |-> [old EXCEPT !.st = "rejected", !.error = "fetch"],
              store |-> set.store]
        ELSE [task |-> [old EXCEPT !.st = "fetched", !.value = r.value],
              store |-> set.store]

\* fetchWithCache that does not cache an empty series
FinishTaskSkipEmpty(mode, store, cacheKey, old, r, t) ==
    LET set == IF r.value = JSArr(<<>>) THEN [threw |-> FALSE, store |-> store]
               ELSE setCachedData(mode, store, cacheKey, r.value, t)
    IN  IF r.threw
        THEN [task |-> [old EXCEPT !.st = "rejected", !.error = "fetch"],
              store |-> store]
        ELSE IF set.threw
        THEN [task |-> [old EXCEPT !.st = "rejected", !.error = "cache"],
              store |-> set.store]
        ELSE [task |-> [old EXCEPT !.st = "fetched", !.value = r.value],
              store |-> set.store]

\* fetchWithCache(cacheKey, ...) from its await on, at time t, when
\* fetchFunction() ended as r
FinishTask(mode, store, cacheKey, old, r, t) ==
    LET set == setCachedData(mode, store, cacheKey, r.value, t)
    IN  IF r.threw
        THEN [task |-> [old EXCEPT !.st = "rejected", !.error = "fetch"],
              store |-> store]
        ELSE IF set.threw
        THEN [task |-> [old EXCEPT !.st = "rejected", !.error = "cache"],
              store |-> set.store]
        ELSE [task |-> [old EXCEPT !.st = "fetched", !.value = r.value],
              store |-> set.store]

\* the catch block of initApp
Catch(doc) == [doc EXCEPT !.loading = FALSE, !.error = TRUE]

\* the end of the try block of initApp, when the two updateCurrencyDisplay
\* calls have done jpy and usd in the document doc: a call that throws leaves
\* what it and the calls before it wrote and lands in the catch block; with
\* none throwing, the content is shown and the update time written
Display(doc, l, jpy, usd, t) ==
    [locals |-> l,
     dom |-> IF jpy.threw
             THEN Catch([doc EXCEPT !.fields["jpy"] = jpy.fields])
             ELSE IF usd.threw
             THEN Catch([doc EXCEPT !.fields["jpy"] = jpy.fields,
                                    !.fields["usd"] = usd.fields])
             ELSE [doc EXCEPT !.fields["jpy"] = jpy.fields,
                              !.fields["usd"] = usd.fields,
                              !.loading = FALSE,
                              !.content = TRUE,
                              !.updateTime = t]]

\* the two updateCurrencyDisplay calls of initApp, jpy first, on the values
\* l it has computed
RenderLocals(doc, l, t) ==
    Display(doc, l,
            updateCurrencyDisplay("jpy", l["jpy"].rate, l["jpy"].avg, l["jpy"].weather),
            updateCurrencyDisplay("usd", l["usd"].rate, l["usd"].avg, l["usd"].weather),
            t)

\* the try block of initApp after its await, all four calls resolved
Render(doc, tasks, t) ==
    RenderLocals(doc, [p \in Prefixes |-> Compute(tasks, p)], t)

\* the fields updateCurrencyDisplay writes for a pair with the values l
ShownFields(p, l) == updateCurrencyDisplay(p, l.rate, l.avg, l.weather).fields

\* initApp that, when a call has thrown, still renders the pairs whose calls
\* have resolved
SettlePartial(doc, tasks, t) ==
    LET done(p) == Resolved(tasks[CurrentKey(p)]) /\ Resolved(tasks[HistoricalKey(p)])
    IN  IF \E k \in Keys : tasks[k].st = "rejected"
        THEN [locals |-> [p \in Prefixes |->
                             IF done(p) THEN Compute(tasks, p) ELSE NoLocals],
              dom |-> Catch([doc EXCEPT
                        !.fields = [p \in Prefixes |->
                            IF done(p) THEN ShownFields(p, Compute(tasks, p))
                            ELSE doc.fields[p]]])]
        ELSE IF \A k \in Keys : Resolved(tasks[k])
        THEN Render(doc, tasks, t)
        ELSE [locals |-> [p \in Prefixes |-> NoLocals], dom |-> doc]

\* initApp from its await on, in the document doc, when the fetchWithCache
\* calls of the cycle stand as tasks: nothing while a call is pending and
\* none has thrown, the catch block once one has thrown, the rest of the try
\* block once all have resolved
Settle(doc, tasks, t) ==
    IF \E k \in Keys : tasks[k].st = "rejected"
    THEN [locals |-> [p \in Prefixes |-> NoLocals], dom |-> Catch(doc)]
    ELSE IF \A k \in Keys : Resolved(tasks[k])
    THEN Render(doc, tasks, t)
    ELSE [locals |-> [p \in Prefixes |-> NoLocals], dom |-> doc]

NoCall == [op |-> "none"]
NoCacheCall ==
    [op |-> "none", key |-> "", data |-> JSUndefined, at |-> 0,
     result |-> JSUndefined, threw |-> FALSE, found |-> "", age |-> 0,
     prev |-> [op |-> "none", key |-> "", data |-> JSUndefined, at |-> 0]]

Init ==
    /\ now = 0
    /\ ticks = 0
    /\ loads = 0
    /\ storageMode \in {"ok", "full", "denied"}
    /\ localStorage \in
          { [k \in Keys |-> NoItem],
            [k \in Keys |-> IF k = "jpy-current" THEN Garbled
                            ELSE IF k = "jpy-historical" THEN Foreign ELSE NoItem] }
    /\ storageMode = "denied" => \A k \in Keys : localStorage[k] = NoItem
    /\ task = [c \in Pages |-> [k \in Keys |-> NoTask]]
    /\ locals = [c \in Pages |-> [p \in Prefixes |-> NoLocals]]
    /\ dom = [c \in Pages |-> InitialDom]
    /\ call = NoCall
    /\ cacheCall = NoCacheCall

\* the clock advances
Tick ==
    /\ ticks < MaxTicks
    /\ \E d \in TickSteps : now' = now + d
    /\ ticks' = ticks + 1
    /\ UNCHANGED <<loads, storageMode, localStorage, task, locals, dom, call, cacheCall>>

\* Page c is loaded (or loaded again, which abandons what its previous
\* document was doing) and initApp() runs: the four fetchWithCache calls are
\* made in turn, each running to its await; calls answered from the cache
\* are resolved at once
InitApp(c) ==
    /\ loads < MaxLoads
    /\ loads' = loads + 1
    /\ LET s1 == StartTask(storageMode, localStorage, "jpy-current", now)
           s2 == StartTask(storageMode, s1.store, "jpy-historical", now)
           s3 == StartTask(storageMode, s2.store, "usd-current", now)
           s4 == StartTask(storageMode, s3.store, "usd-historical", now)
           tasks == [k \in Keys |->
                        CASE k = "jpy-current" -> s1.task
                          [] k = "jpy-historical" -> s2.task
                          [] k = "usd-current" -> s3.task
                          [] k = "usd-historical" -> s4.task]
           end == Settle(InitialDom, tasks, now)
       IN  /\ localStorage' = s4.store
           /\ task' = [task EXCEPT ![c] = tasks]
           /\ locals' = [locals EXCEPT ![c] = end.locals]
           /\ dom' = [dom EXCEPT ![c] = end.dom]
    /\ UNCHANGED <<now, ticks, storageMode, call, cacheCall>>

\* the end of a pending call's fetchFunction() with initApp going on after
\* it has reported an error: the pairs whose calls have resolved are written
\* when a late fetch ends
FetchSettlesLate(c, k, r) ==
    /\ task[c][k].st = "pending"
    /\ LET fin == FinishTask(storageMode, localStorage, k, task[c][k], r, now)
           tasks == [task[c] EXCEPT ![k] = fin.task]
           end == SettlePartial(dom[c], tasks, now)
       IN  /\ localStorage' = fin.store
           /\ task' = [task EXCEPT ![c] = tasks]
           /\ locals' = [locals EXCEPT ![c] = end.locals]
           /\ dom' = [dom EXCEPT ![c] = end.dom]
    /\ UNCHANGED <<now, ticks, loads, storageMode, call, cacheCall>>

\* the fetchFunction() of a pending call of page c ends as r, and
\* fetchWithCache, Promise.all and initApp run on from there; once initApp
\* has returned, the calls still pending end without it
FetchSettles(c, k, r) ==
    /\ task[c][k].st = "pending"
    /\ LET fin == FinishTask(storageMode, localStorage, k, task[c][k], r, now)
           tasks == [task[c] EXCEPT ![k] = fin.task]
           end == Settle(dom[c], tasks, now)
       IN  /\ localStorage' = fin.store
           /\ task' = [task EXCEPT ![c] = tasks]
           /\ IF dom[c].loading
              THEN /\ locals' = [locals EXCEPT ![c] = end.locals]
                   /\ dom' = [dom EXCEPT ![c] = end.dom]
              ELSE UNCHANGED <<locals, dom>>
    /\ UNCHANGED <<now, ticks, loads, storageMode, call, cacheCall>>

\* fetchCurrentRate of a pending call ends on some response
CurrentFetchSettles(c, k) ==
    /\ k \in CurrentKeys
    /\ \E response \in CurrentResponses : FetchSettles(c, k, fetchCurrentRate(response))

\* fetchHistoricalRates of a pending call ends on some response
HistoricalFetchSettles(c, k) ==
    /\ k \notin CurrentKeys
    /\ \E response \in HistoricalResponses :
          FetchSettles(c, k, fetchHistoricalRates(response))

\* one tab, loaded and reloaded
Next ==
    \/ Tick
    \/ InitApp("a")
    \/ \E k \in Keys : CurrentFetchSettles("a", k)
    \/ \E k \in Keys : HistoricalFetchSettles("a", k)

Spec == Init /\ [][Next]_vars

\* a working and empty storage
InitTabs ==
    /\ Init
    /\ storageMode = "ok"
    /\ \A k \in Keys : localStorage[k] = NoItem

\* two tabs within one freshness window
NextTabs ==
    \/ \E c \in Pages : InitApp(c)
    \/ \E c \in Pages, k \in Keys : CurrentFetchSettles(c, k)
    \/ \E c \in Pages, k \in Keys : HistoricalFetchSettles(c, k)

SpecTabs == InitTabs /\ [][NextTabs]_vars

\* fetchCurrentRate of a pending call ends on some response, unusual ones
\* included
AnyCurrentFetchSettles(c, k) ==
    /\ k \in CurrentKeys
    /\ \E response \in AnyCurrentResponses :
          FetchSettles(c, k, fetchCurrentRate(response))

\* fetchHistoricalRates of a pending call ends on some response, unusual
\* ones included
AnyHistoricalFetchSettles(c, k) ==
    /\ k \notin CurrentKeys
    /\ \E response \in AnyHistoricalResponses :
          FetchSettles(c, k, fetchHistoricalRates(response))

\* one tab over a working storage, whatever the provider answers
NextCycle ==
    \/ InitApp("a")
    \/ \E k \in Keys : AnyCurrentFetchSettles("a", k)
    \/ \E k \in Keys : AnyHistoricalFetchSettles("a", k)

SpecCycle == InitTabs /\ [][NextCycle]_vars

(***************************************************************************)
(* The functions called directly, once in a behaviour, on inputs drawn from *)
(* bounded sets.                                                           *)
(***************************************************************************)
WeatherRates == {Num(-100), Zero, Num(98), Num(99), Num(100), Num(101), Num(102)}
AverageRates == {Num(1), Num(3), Num(SigHigh)}
DayEntries ==
    { Day("rate", Num(100)), Day("rate", Num(101)),
      Day("noobj", Zero), Day("missing", Zero), Day("nonnum", Zero) }
Payloads ==
    { JSNum(Num(101)), JSNum(PosInfinity), JSArr(<<>>), JSArr(<<Num(100), Num(101)>>) }
HarnessKeys == {"jpy-current", "jpy-historical"}

SeqsUpTo(S, n) == UNION {[1 .. m -> S] : m \in 0 .. n}

\* determineWeather(currentRate, avgRate) is called
CallDetermineWeather ==
    /\ call = NoCall
    /\ \E currentRate \in WeatherRates, avgRate \in WeatherRates :
          call' = [op |-> "determineWeather", currentRate |-> currentRate,
                   avgRate |-> avgRate,
                   result |-> determineWeather(currentRate, avgRate)]
    /\ UNCHANGED <<now, ticks, loads, storageMode, localStorage, task, locals, dom,
                   cacheCall>>

\* calculateAverage is called on a series and on a reordering of it
CallCalculateAverage ==
    /\ call = NoCall
    /\ \E rates \in SeqsUpTo(AverageRates, MaxSeries) :
          \E perm \in Permutations(1 .. Len(rates)) :
             LET reordered == [i \in 1 .. Len(rates) |-> rates[perm[i]]]
             IN  call' = [op |-> "calculateAverage", rates |-> rates,
                          reordered |-> reordered,
                          result |-> calculateAverage(rates),
                          resultReordered |-> calculateAverage(reordered)]
    /\ UNCHANGED <<now, ticks, loads, storageMode, localStorage, task, locals, dom,
                   cacheCall>>

\* fetchHistoricalRates is called and the provider answers
CallFetchHistoricalRates ==
    /\ call = NoCall
    /\ \E response \in
            {HistResponse(k, <<>>) : k \in {"exception", "status", "parse", "shape"}}
            \cup {HistResponse("ok", ds) : ds \in SeqsUpTo(DayEntries, MaxDays)} :
          call' = [op |-> "fetchHistoricalRates", response |-> response,
                   result |-> fetchHistoricalRates(response)]
    /\ UNCHANGED <<now, ticks, loads, storageMode, localStorage, task, locals, dom,
                   cacheCall>>

\* updateCurrencyDisplay is called for each pair on the same rate, average
\* and weather type
CallUpdateCurrencyDisplay ==
    /\ call = NoCall
    /\ \E rate \in WeatherRates, avgRate \in WeatherRates,
          weatherType \in {"sunny", "cloudy", "rainy"} :
          call' = [op |-> "updateCurrencyDisplay", rate |-> rate, avgRate |-> avgRate,
                   weatherType |-> weatherType,
                   jpy |-> updateCurrencyDisplay("jpy", JSNum(rate), avgRate, weatherType),
                   usd |-> updateCurrencyDisplay("usd", JSNum(rate), avgRate, weatherType)]
    /\ UNCHANGED <<now, ticks, loads, storageMode, localStorage, task, locals, dom,
                   cacheCall>>

NextFn ==
    \/ CallDetermineWeather
    \/ CallCalculateAverage
    \/ CallFetchHistoricalRates
    \/ CallUpdateCurrencyDisplay

SpecFn == InitTabs /\ [][NextFn]_vars

PrevOf(c) == [op |-> c.op, key |-> c.key, data |-> c.data, at |-> c.at]

\* setCachedData(key, data) is called
CacheSet(key, data) ==
    /\ LET r == setCachedData(storageMode, localStorage, key, data, now)
       IN  /\ localStorage' = r.store
           /\ cacheCall' = [op |-> "setCachedData", key |-> key, data |-> data,
                            at |-> now, result |-> JSUndefined, threw |-> r.threw,
                            found |-> "", age |-> 0, prev |-> PrevOf(cacheCall)]
    /\ UNCHANGED <<now, ticks, loads, storageMode, task, locals, dom, call>>

\* getCachedData(key) is called; found and age tell what was stored under
\* the key before the call and how old it was
CacheGet(key) ==
    /\ LET r == getCachedData(storageMode, localStorage, key, now)
       IN  /\ localStorage' = r.store
           /\ cacheCall' = [op |-> "getCachedData", key |-> key, data |-> JSUndefined,
                            at |-> now, result |-> r.value, threw |-> r.threw,
                            found |-> localStorage[key].kind,
                            age |-> now - localStorage[key].timestamp,
                            prev |-> PrevOf(cacheCall)]
    /\ UNCHANGED <<now, ticks, loads, storageMode, task, locals, dom, call>>

NextCache ==
    \/ Tick
    \/ \E key \in HarnessKeys, data \in Payloads : CacheSet(key, data)
    \/ \E key \in HarnessKeys : CacheGet(key)

SpecCache == Init /\ [][NextCache]_vars

(***************************************************************************)
(* Properties.                                                             *)
(***************************************************************************)

\* C6: for average = 0, determineWeather returns cloudy whatever the current
\* rate is.  (Violated: the quotient is +Infinity or -Infinity for a nonzero
\* current rate, which the thresholds classify as sunny or rainy.)
C6_ZeroAverageIsCloudy ==
    (call.op = "determineWeather" /\ call.avgRate = Zero) => call.result = "cloudy"

\* the days of a response that hold a number, in response order
ValidRates(days) ==
    LET valid == SelectSeq(days, LAMBDA d : d.kind = "rate")
    IN  [i \in 1 .. Len(valid) |-> valid[i].rate]

\* C7: fetchHistoricalRates never raises; on a successful response it
\* returns the rates of the valid days in response order and omits only the
\* bad entries; on a bad status, an unparseable payload, a missing rates
\* mapping or a transport exception it returns the empty series.
C7_HistoricalFetchResilient ==
    call.op = "fetchHistoricalRates" =>
        /\ ~call.result.threw
        /\ call.result.value =
              JSArr(IF call.response.kind = "ok"
                    THEN ValidRates(call.response.days) ELSE <<>>)

C7_Witness ==
    /\ call.op = "fetchHistoricalRates"
    /\ call.response.kind = "ok"
    /\ \E i, j \in 1 .. Len(call.response.days) :
          call.response.days[i].kind = "missing" /\ call.response.days[j].kind = "nonnum"
    /\ call.result.value = JSArr(<<Num(101)>>)

\* the quotient d that determineWeather compares with its thresholds
Deviation(currentRate, avgRate) == NumDiv(NumSub(currentRate, avgRate), avgRate)

\* C9: with d = (current - average) / average and average nonzero,
\* determineWeather returns sunny exactly when d >= 0.01, rainy exactly when
\* d <= -0.01 and cloudy otherwise; a d equal to a threshold is inside the
\* band it bounds, and determineWeather(avg, avg) is cloudy.  (d is compared
\* here with the rational 1/100; the number nearest to 0.01 lies above it,
\* as in the engine, so no number lies between the two.)
C9_ClassificationBands ==
    (call.op = "determineWeather" /\ call.avgRate # Zero) =>
        LET d == Deviation(call.currentRate, call.avgRate)
        IN  /\ call.result \in {"sunny", "rainy", "cloudy"}
            /\ call.result = "sunny" <=> 100 * d[1] >= d[2]
            /\ call.result = "rainy" <=> 100 * d[1] <= -d[2]
            /\ d = THRESHOLD_SUNNY => call.result = "sunny"
            /\ d = THRESHOLD_RAINY => call.result = "rainy"
            /\ call.currentRate = call.avgRate => call.result = "cloudy"

C9_Witness ==
    /\ call.op = "determineWeather"
    /\ call.avgRate = Num(100)
    /\ call.currentRate = Num(101)
    /\ Deviation(call.currentRate, call.avgRate) = THRESHOLD_SUNNY
    /\ call.result = "sunny"

\* the sum of a series without rounding
RECURSIVE ExactSum(_)
ExactSum(rates) ==
    IF rates = <<>> THEN Zero
    ELSE LET a == ExactSum(SubSeq(rates, 1, Len(rates) - 1))
             b == rates[Len(rates)]
         IN  Normalize(a[1] * b[2] + b[1] * a[2], a[2] * b[2])

\* every running sum of the series is a number as it stands: no addition
\* of the reduce is rounded
RunningSumsExact(rates) ==
    \A i \in 1 .. Len(rates) :
        Reduce(Zero, SubSeq(rates, 1, i)) = ExactSum(SubSeq(rates, 1, i))

\* C10 as stated: calculateAverage returns 0 for the empty series, r for
\* [r], and the same value for every reordering of a series.  (Violated:
\* the additions round, and which of them round depends on the order.)
C10_AverageOrderInvariant ==
    call.op = "calculateAverage" =>
        /\ Len(call.rates) = 0 => call.result = Zero
        /\ Len(call.rates) = 1 => call.result = call.rates[1]
        /\ call.result = call.resultReordered

\* C10 amended: calculateAverage returns 0 for the empty series, r for [r],
\* and the same value for a series and a reordering of it whenever no
\* running sum of either order is rounded.
C10_AverageOrderInvariantWhenExact ==
    call.op = "calculateAverage" =>
        /\ Len(call.rates) = 0 => call.result = Zero
        /\ Len(call.rates) = 1 => call.result = call.rates[1]
        /\ (RunningSumsExact(call.rates) /\ RunningSumsExact(call.reordered))
              => call.result = call.resultReordered

C10_Witness ==
    /\ call.op = "calculateAverage"
    /\ Len(call.rates) = 3
    /\ call.reordered # call.rates
    /\ RunningSumsExact(call.rates)
    /\ RunningSumsExact(call.reordered)
    /\ call.result = call.resultReordered

\* a payload the cache is given: one finite rate or a series of finite rates
IsRatePayload(data) ==
    \/ data.t = "number" /\ IsFinite(data.v)
    \/ data.t = "array" /\ \A i \in 1 .. Len(data.v) : IsFinite(data.v[i])

\* getCachedData(k) was called right after setCachedData(k, v) on a payload
GetFollowsSet ==
    /\ cacheCall.op = "getCachedData"
    /\ cacheCall.prev.op = "setCachedData"
    /\ cacheCall.prev.key = cacheCall.key
    /\ cacheCall.prev.at = cacheCall.at
    /\ IsRatePayload(cacheCall.prev.data)

\* C3 as stated: setCachedData(k, v) followed immediately by getCachedData(k)
\* returns v unchanged, for a single rate and for a rate series, the empty
\* one included.  (Violated: a storage that refuses the write keeps nothing,
\* and setCachedData swallows the refusal.)
C3_RoundTrip == GetFollowsSet => cacheCall.result = cacheCall.prev.data

\* C3 amended: when the storage accepts the write, setCachedData(k, v)
\* followed immediately by getCachedData(k) returns v unchanged.
C3_RoundTripWhenStored ==
    (GetFollowsSet /\ storageMode = "ok") => cacheCall.result = cacheCall.prev.data

C3_Witness ==
    /\ GetFollowsSet
    /\ storageMode = "ok"
    /\ cacheCall.prev.data = JSArr(<<>>)
    /\ cacheCall.result = JSArr(<<>>)
    /\ cacheCall.found = "entry"

\* C4: getCachedData(k) returns the stored payload only while the entry is
\* younger than CACHE_DURATION; a get at or beyond that age removes the entry
\* and returns null, and a get that finds nothing stored returns null and
\* stores nothing, so that an evicted entry stays evicted until the next set.
C4_Expiry ==
    cacheCall.op = "getCachedData" =>
        LET fresh == cacheCall.found = "entry" /\ cacheCall.age < CACHE_DURATION
        IN  /\ cacheCall.result # JSNull => fresh
            /\ fresh => /\ localStorage[cacheCall.key].kind = "entry"
                        /\ cacheCall.result = localStorage[cacheCall.key].data
            /\ (cacheCall.found = "entry" /\ cacheCall.age >= CACHE_DURATION) =>
                  /\ cacheCall.result = JSNull
                  /\ localStorage[cacheCall.key] = NoItem
            /\ cacheCall.found = "none" =>
                  /\ cacheCall.result = JSNull
                  /\ localStorage[cacheCall.key] = NoItem

C4_Witness ==
    /\ cacheCall.op = "getCachedData"
    /\ cacheCall.found = "entry"
    /\ cacheCall.age = CACHE_DURATION
    /\ cacheCall.result = JSNull
    /\ localStorage[cacheCall.key] = NoItem

\* the fetchWithCache call invoked its fetchFunction
Invoked(t) == t.st \in {"pending", "fetched"} \/ (t.st = "rejected" /\ t.error = "fetch")

\* C1 as stated: for every key, the fetch function is invoked at most once
\* within one freshness window, however many fetchWithCache calls are made
\* for the key, calls that start while an earlier one awaits its fetch
\* included.  (Violated: a call that starts while another awaits its fetch
\* finds nothing stored and fetches too.)
C1_AtMostOneFetchPerWindow ==
    \A k \in Keys : \A c1, c2 \in Pages :
        (c1 # c2 /\ Invoked(task[c1][k]) /\ Invoked(task[c2][k])) =>
            \/ task[c1][k].at - task[c2][k].at >= CACHE_DURATION
            \/ task[c2][k].at - task[c1][k].at >= CACHE_DURATION

\* C1 amended: a fetchWithCache call that starts while an entry younger than
\* CACHE_DURATION holding a payload is stored under its key returns that
\* payload without invoking the fetch function; only a call that finds no
\* such entry invokes it.
C1_NoFetchOnFreshEntry ==
    \A c \in Pages, k \in Keys :
        LET t == task[c][k]
            fresh == /\ t.found = "entry"
                     /\ t.age < CACHE_DURATION
                     /\ t.held # JSNull
        IN  /\ Invoked(t) => ~fresh
            /\ t.st = "cached" => fresh
            /\ (t.st # "none" /\ fresh) => (t.st = "cached" /\ t.value = t.held)

C1_Witness ==
    /\ task["a"]["jpy-current"].st = "fetched"
    /\ task["b"]["jpy-current"].st = "cached"
    /\ task["b"]["jpy-current"].value = JSNum(Num(101))
    /\ Invoked(task["a"]["usd-current"])
    /\ Invoked(task["b"]["usd-current"])

\* C2: if the current-rate fetch of either pair throws, the cycle ends in
\* the error outcome and the display fields of neither pair are written,
\* whatever the other calls of the cycle did.
C2_CurrentFailureIsFatal ==
    \A c \in Pages, k \in CurrentKeys :
        (task[c][k].st = "rejected" /\ task[c][k].error = "fetch") =>
            /\ dom[c].error
            /\ ~dom[c].loading
            /\ ~dom[c].content
            /\ \A p \in Prefixes : dom[c].fields[p] = NoFields

C2_Witness ==
    /\ task["a"]["jpy-current"].st = "rejected"
    /\ task["a"]["jpy-current"].error = "fetch"
    /\ task["a"]["jpy-historical"].st = "fetched"
    /\ task["a"]["usd-current"].st = "fetched"
    /\ task["a"]["usd-historical"].st = "fetched"
    /\ task["a"]["usd-historical"].value.v # <<>>
    /\ dom["a"].error

\* C5: whenever the cycle renders and the historical series of a pair is
\* empty, the average of the pair equals its current rate (when the
\* provider gave one) and the pair is shown as cloudy, whatever the other
\* pair's rates are.
C5_EmptySeriesIsCloudy ==
    \A c \in Pages, p \in Prefixes :
        (dom[c].content /\ task[c][HistoricalKey(p)].value = JSArr(<<>>)) =>
            /\ task[c][CurrentKey(p)].value.t = "number" =>
                  locals[c][p].avg = task[c][CurrentKey(p)].value.v
            /\ locals[c][p].weather = "cloudy"
            /\ dom[c].fields[p].icon = WeatherIcon("cloudy")

C5_Witness ==
    /\ dom["a"].content
    /\ task["a"]["jpy-historical"].st = "cached"
    /\ task["a"]["jpy-historical"].value = JSArr(<<>>)
    /\ locals["a"]["jpy"].weather = "cloudy"
    /\ locals["a"]["usd"].weather = "sunny"

\* C8: no failure of the storage surfaces or blocks a fetch: no
\* fetchWithCache call throws on account of the cache; a call that finds the
\* storage unreadable or the entry corrupt goes on to the fetch function;
\* a call whose fetch returned returns what was fetched; and once every
\* fetch of a cycle has returned, with a number for each current rate, the
\* cycle renders, whether or not the storage took the results.
C8_CacheFailuresSwallowed ==
    \A c \in Pages, k \in Keys :
        LET t == task[c][k]
        IN  /\ t.error # "cache"
            /\ (t.st # "none" /\ (storageMode = "denied" \/ t.found \in {"garbled", "foreign"}))
                  => Invoked(t)
            /\ t.st = "fetched" => t.value.t \in {"number", "array", "undefined"}
            /\ (/\ \A j \in Keys : task[c][j].st = "fetched"
                /\ \A j \in CurrentKeys : task[c][j].value.t = "number") =>
                  /\ dom[c].content
                  /\ ~dom[c].error

C8_Witness ==
    /\ storageMode = "full"
    /\ \A k \in Keys : task["a"][k].st = "fetched"
    /\ task["a"]["jpy-current"].found = "garbled"
    /\ localStorage["usd-current"] = NoItem
    /\ dom["a"].content
    /\ dom["a"].fields["usd"].written

\* C11: updateCurrencyDisplay leaves the difference element tagged positive
\* if currentRate > averageRate, negative if currentRate < averageRate and
\* untagged otherwise; for averageRate = 0 it writes the text 'N/A' and no
\* tag whatever the current rate is; and for the same rate and average the
\* text and the tag are the same for the JPY and the USD pair.
C11_DifferenceTag ==
    call.op = "updateCurrencyDisplay" =>
        LET above == call.rate[1] * call.avgRate[2] > call.avgRate[1] * call.rate[2]
            below == call.rate[1] * call.avgRate[2] < call.avgRate[1] * call.rate[2]
            tagged(f) ==
                IF call.avgRate = Zero
                THEN f.diff = SentinelDiff /\ f.cls = ""
                ELSE /\ f.diff.kind = "percent"
                     /\ f.diff.pct.kind = "digits"
                     /\ f.cls = (IF above THEN "positive"
                                 ELSE IF below THEN "negative" ELSE "")
        IN  /\ ~call.jpy.threw /\ ~call.usd.threw
            /\ tagged(call.jpy.fields)
            /\ tagged(call.usd.fields)
            /\ call.jpy.fields.diff = call.usd.fields.diff
            /\ call.jpy.fields.cls = call.usd.fields.cls

C11_Witness ==
    /\ call.op = "updateCurrencyDisplay"
    /\ call.rate = Num(99)
    /\ call.avgRate = Num(100)
    /\ call.jpy.fields.cls = "negative"
    /\ call.jpy.fields.diff = [kind |-> "percent", sign |-> "",
                               pct |-> [kind |-> "digits", neg |-> TRUE, n |-> 100]]
    /\ call.usd.fields.diff = call.jpy.fields.diff
    /\ call.jpy.fields.rate # call.usd.fields.rate

\* the latest call for key k fetched an empty series less than
\* CACHE_DURATION ago
FetchedEmpty(k) ==
    /\ task["a"][k].st = "fetched"
    /\ task["a"][k].value = JSArr(<<>>)
    /\ now - task["a"][k].at < CACHE_DURATION

\* the page is loaded again and the call for key k is answered with the
\* empty series from the cache
ServedEmptyFromCache(k) ==
    /\ task'["a"][k].st = "cached"
    /\ task'["a"][k].value = JSArr(<<>>)

\* C12 as stated: after fetchWithCache obtained an empty series from its
\* fetch function, every further call for the key within the freshness
\* window returns the empty series from the cache without fetching.
\* (Violated: a storage that refuses the write keeps nothing, and the next
\* call fetches again.)
C12_EmptyResultCached ==
    [][\A k \in Keys :
          (FetchedEmpty(k) /\ loads' = loads + 1) => ServedEmptyFromCache(k)]_vars

\* C12 amended: when the storage accepts the write, an empty series that
\* fetchWithCache obtained is stored like any other, and a further call for
\* the key within the freshness window returns it from the cache without
\* fetching and leaves the entry as it is.
C12_EmptyResultCachedWhenStored ==
    [][\A k \in Keys :
          (FetchedEmpty(k) /\ storageMode = "ok") =>
              /\ localStorage[k].kind = "entry"
              /\ localStorage[k].data = JSArr(<<>>)
              /\ loads' = loads + 1 =>
                    (ServedEmptyFromCache(k) /\ localStorage'[k] = localStorage[k])]_vars

C12_Witness ==
    /\ storageMode = "ok"
    /\ task["a"]["jpy-historical"].st = "cached"
    /\ task["a"]["jpy-historical"].value = JSArr(<<>>)
    /\ task["a"]["jpy-historical"].found = "entry"
    /\ task["a"]["jpy-historical"].age = CACHE_DURATION - 1
    /\ localStorage["jpy-historical"].data = JSArr(<<>>)

\* C13: when the fetch function of a fetchWithCache call throws, the call
\* throws to initApp, which ends in the error outcome, nothing in the
\* storage changes, and the next call for the key invokes its fetch
\* function again.
C13_FailedFetchStoresNothing ==
    [][\A k \in Keys :
          /\ (task["a"][k].st = "pending" /\ task'["a"][k].st = "rejected") =>
                /\ task'["a"][k].error = "fetch"
                /\ localStorage' = localStorage
                /\ dom'["a"].error
                /\ ~dom'["a"].content
          /\ (task["a"][k].st = "rejected" /\ loads' = loads + 1) =>
                task'["a"][k].st = "pending"]_vars

C13_Witness ==
    /\ storageMode = "ok"
    /\ loads = 2
    /\ task["a"]["jpy-current"].st = "rejected"
    /\ task["a"]["jpy-current"].error = "fetch"
    /\ task["a"]["jpy-current"].found = "none"
    /\ localStorage["jpy-current"] = NoItem
    /\ task["a"]["usd-current"].st = "cached"
    /\ dom["a"].error

\* the two outcomes of a cycle
Ready(c) ==
    /\ dom[c].content
    /\ ~dom[c].error
    /\ \A p \in Prefixes : dom[c].fields[p].written
Failed(c) ==
    /\ dom[c].error
    /\ ~dom[c].content
    /\ \A p \in Prefixes : dom[c].fields[p] = NoFields

\* C14: every cycle that finishes ends either ready (content shown, the
\* elements of both pairs written) or in error (error shown, the elements of
\* no pair written), never with both shown and never with one pair written
\* without the other, whatever the four fetches resolve to.  (Violated: a
\* USD rate that is not a number makes updateCurrencyDisplay('usd') throw
\* after the JPY elements and the USD icon were written.)
C14_SingleOutcome ==
    \A c \in Pages : ~dom[c].loading => (Ready(c) \/ Failed(c))

\* C15: getCachedData(k), its removal of an expired entry included, and
\* setCachedData(k, v) leave what is stored under every other key as it is.
C15_KeysIndependent ==
    [][\A k \in Keys : k # cacheCall'.key => localStorage'[k] = localStorage[k]]_vars

C15_Witness ==
    /\ cacheCall.op = "getCachedData"
    /\ cacheCall.found = "entry"
    /\ cacheCall.age >= CACHE_DURATION
    /\ localStorage[cacheCall.key] = NoItem
    /\ \E k \in Keys :
          /\ k # cacheCall.key
          /\ localStorage[k].kind = "entry"
          /\ now - localStorage[k].timestamp >= CACHE_DURATION

\* a fetchWithCache call that has returned or thrown
Settled(t) == t.st \in {"cached", "fetched", "rejected"}

\* C16: within one cycle each of the four calls invokes its fetch function
\* at most once, and only when the page is loaded; a call that has returned
\* or thrown is not made again, and a failed current-rate fetch leaves its
\* call thrown and the cycle in the error outcome.
C16_NoRetries ==
    [][\A k \in Keys :
          /\ task'["a"][k].fetches <= 1
          /\ (task'["a"][k].st = "pending" /\ task["a"][k].st # "pending") =>
                loads' = loads + 1
          /\ (Settled(task["a"][k]) /\ loads' = loads) =>
                task'["a"][k] = task["a"][k]
          /\ (k \in CurrentKeys /\ task["a"][k].st = "rejected" /\ loads' = loads) =>
                (dom["a"].error /\ dom'["a"].error)]_vars

C16_Witness ==
    /\ loads = 1
    /\ task["a"]["jpy-current"].st = "rejected"
    /\ task["a"]["jpy-current"].fetches = 1
    /\ \A k \in Keys : Settled(task["a"][k]) /\ task["a"][k].fetches = 1
    /\ dom["a"].error

\* C17: in every pair that is written, the icon and the difference element
\* agree: with the sunny icon the element carries the positive tag and a
\* '+' sign, with the rainy icon the negative tag, and with no tag or with
\* the text 'N/A' the icon is the cloudy one.  (Violated for an average of
\* 0: determineWeather divides by it and answers sunny or rainy, while
\* updateCurrencyDisplay writes 'N/A' and no tag.)
C17_IconMatchesTag ==
    \A c \in Pages, p \in Prefixes :
        LET f == dom[c].fields[p]
        IN  f.written =>
               /\ f.icon = WeatherIcon("sunny") =>
                     (f.cls = "positive" /\ f.diff.sign = "+")
               /\ f.icon = WeatherIcon("rainy") => f.cls = "negative"
               /\ (f.cls = "" \/ f.diff = SentinelDiff) =>
                     f.icon = WeatherIcon("cloudy")

\* C18: once a cycle has shown the error, the fetches still in flight run
\* on: one that returns stores its result under its own key and touches no
\* other key; the document stays as the catch block left it, so that no
\* element is written afterwards and the content is never shown for that
\* cycle.
C18_ErrorOutcomeStays ==
    [][(dom["a"].error /\ loads' = loads) =>
          /\ dom'["a"] = dom["a"]
          /\ ~dom'["a"].content
          /\ locals'["a"] = locals["a"]
          /\ \A k \in Keys :
                (task["a"][k].st = "pending" /\ task'["a"][k].st = "fetched") =>
                    /\ localStorage'[k] = Entry(JSONData(task'["a"][k].value), now)
                    /\ \A j \in Keys \ {k} : localStorage'[j] = localStorage[j]]_vars

C18_Witness ==
    /\ dom["a"].error
    /\ ~dom["a"].content
    /\ \A p \in Prefixes : dom["a"].fields[p] = NoFields
    /\ task["a"]["jpy-current"].st = "rejected"
    /\ task["a"]["jpy-historical"].st = "pending"
    /\ task["a"]["usd-current"].st = "fetched"
    /\ task["a"]["usd-historical"].st = "fetched"
    /\ localStorage["jpy-current"] = NoItem
    /\ localStorage["usd-historical"].kind = "entry"
====
